---- MODULE Spec2Model ----
(***************************************************************************)
(* A model of the two notebooks of keychainx/ml-notebooks:                 *)
(*   - the preprocessing notebook (src/unnamed/part_000): load the CSV,    *)
(*     encode the labels, shuffle, split, build the three feature sets,    *)
(*     build and fit the three classifiers, print_accuracy;                *)
(*   - the hyperparameter-search notebook                                  *)
(*     (src/notebooks/hyperparameter_search.ipynb): data(), model(...),    *)
(*     optim.minimize, print(best_run), the guarded pickle.dump.           *)
(* A notebook cell is one action, and so is a call of print_accuracy.      *)
(* Feature values are integers in the CSV,                                 *)
(* so every float the cells compute is a rational or a rational over a     *)
(* square root; the model computes them exactly (rounding is left out) and *)
(* keeps IEEE's special values: nan, +inf, -inf.                           *)
(***************************************************************************)
EXTENDS Integers, Sequences, FiniteSets, TLC

\* ------------------------------------------------------------------ bounds
\* Most data rows (the header not counted) a CSV of the model holds.
MaxRows == 4

\* The label strings (column 2) and the feature rows (columns 5..10, cut to
\* two columns) a CSV of the model may hold.
Labels == {"Grass", "Water"}
FeatureRows == {<<0, 0>>, <<0, 10>>, <<5, 5>>, <<10, 0>>, <<5, 0>>}
HeaderRow == [label |-> "Type 1", feats |-> <<"HP", "Attack">>]

\* ------------------------------------------------------- exact arithmetic
\* A float is [k, n, d, q]: k = "fin" is the number n / (d * sqrt(q)) with
\* d > 0, gcd(n, d) = 1 and q squarefree (q = 1: a rational); k = "nan",
\* "inf" (n = 1: +inf, n = -1: -inf) are IEEE's special values and k = "max"
\* is the largest finite double with the sign of n.
RECURSIVE Gcd(_, _)
Gcd(a, b) == IF b = 0 THEN a ELSE Gcd(b, a % b)

Abs(x) == IF x < 0 THEN -x ELSE x

Sign(x) == IF x < 0 THEN -1 ELSE IF x > 0 THEN 1 ELSE 0

\* The largest t >= s with t*t dividing r, or best when there is none.
RECURSIVE SquarePartFrom(_, _, _)
SquarePartFrom(r, s, best) ==
  IF s * s > r THEN best
  ELSE SquarePartFrom(r, s + 1, IF r % (s * s) = 0 THEN s ELSE best)

\* The largest s with s*s dividing r (r >= 1).
SquarePart(r) == SquarePartFrom(r, 1, 1)

NaN == [k |-> "nan", n |-> 0, d |-> 1, q |-> 1]
Inf(sign) == [k |-> "inf", n |-> sign, d |-> 1, q |-> 1]
FloatMax(sign) == [k |-> "max", n |-> sign, d |-> 1, q |-> 1]

\* The float n / (d * sqrt(r)), d # 0, r >= 1, in its unique form.
Num(n, d, r) ==
  IF n = 0 THEN [k |-> "fin", n |-> 0, d |-> 1, q |-> 1]
  ELSE LET s == SquarePart(r)
           dd == Abs(d) * s
           g == Gcd(Abs(n), dd)
       IN [k |-> "fin", n |-> (Sign(d) * n) \div g, d |-> dd \div g, q |-> r \div (s * s)]

Float(i) == Num(i, 1, 1)

IsZero(a) == a.k = "fin" /\ a.n = 0

\* a - b, a and b rationals.
FSub(a, b) == Num(a.n * b.d - b.n * a.d, a.d * b.d, 1)

FAdd(a, b) == Num(a.n * b.d + b.n * a.d, a.d * b.d, 1)

FMul(a, b) == Num(a.n * b.n, a.d * b.d, 1)

\* a <= b, a and b rationals.
FLeq(a, b) == a.n * b.d <= b.n * a.d

\* sqrt(a), a a rational >= 0: sqrt(n/d) = sqrt(n*d)/d = n*d / (d * sqrt(n*d)).
FSqrt(a) == IF a.n = 0 THEN Float(0) ELSE Num(a.n * a.d, a.d, a.n * a.d)

\* a / b as numpy divides floats, a a rational, b = n/(d*sqrt(q)): a zero
\* divisor gives nan for 0/0 and a signed infinity otherwise (a warning, no
\* exception).
FDiv(a, b) ==
  IF IsZero(b)
    THEN IF IsZero(a) THEN NaN ELSE Inf(Sign(a.n))
    ELSE Num(a.n * b.d * b.q, a.d * b.n, b.q)

\* np.nan_to_num on one entry: nan becomes 0, an infinity the largest finite
\* double of its sign, anything else stays.
NanToNumEntry(v) ==
  CASE v.k = "nan" -> Float(0)
    [] v.k = "inf" -> FloatMax(v.n)
    [] OTHER -> v

\* ------------------------------------------------------------ sequences
Range(s) == {s[i] : i \in 1..Len(s)}

Perms(S) == {p \in [1..Cardinality(S) -> S] : \A a \in S : \E i \in 1..Cardinality(S) : p[i] = a}

RECURSIVE Flatten(_)
Flatten(m) == IF m = <<>> THEN <<>> ELSE Head(m) \o Flatten(Tail(m))

RECURSIVE FSum(_)
FSum(s) == IF s = <<>> THEN Float(0) ELSE FAdd(Head(s), FSum(Tail(s)))

\* np.min / np.max over every entry of a non-empty matrix.
NpMin(m) == CHOOSE v \in Range(Flatten(m)) : \A w \in Range(Flatten(m)) : FLeq(v, w)

NpMax(m) == CHOOSE v \in Range(Flatten(m)) : \A w \in Range(Flatten(m)) : FLeq(w, v)

Column(m, j) == [i \in 1..Len(m) |-> m[i][j]]

Width(m) == Len(m[1])

\* np.mean(m, axis=0) and np.std(m, axis=0), m non-empty: one value per column;
\* std is sqrt(mean(abs(x - x.mean())**2)).
NpMeanAxis0(m) == [j \in 1..Width(m) |-> FDiv(FSum(Column(m, j)), Float(Len(m)))]

ColumnVar(c) ==
  LET mu == FDiv(FSum(c), Float(Len(c)))
      sq == [i \in 1..Len(c) |-> FMul(FSub(c[i], mu), FSub(c[i], mu))]
  IN FDiv(FSum(sq), Float(Len(c)))

NpStdAxis0(m) == [j \in 1..Width(m) |-> FSqrt(ColumnVar(Column(m, j)))]

\* ------------------------------------------------- preprocessing notebook
VARIABLES
  csv,          \* ../data/Pokemon.csv: the header row, then the data rows
  hashOrder,    \* the order in which this process iterates a set of label strings
  seedPerm,     \* the index order RandomState(0) shuffles len(csv)-1 rows into
  pc,           \* the next cell to run: "split", "preprocess", "done", "error"
  heap,         \* the numpy feature buffers allocated so far
  features, labels, uniq_labels, label_2_int, split,
  train_X, train_y, test_X, test_y,
  train_X_base, test_X_base, train_X_norm, test_X_norm, train_X_std, test_X_std,
  stdout,       \* what the cells printed
  exc,          \* the uncaught exception that stopped the notebook, or "none"
  previous      \* <<what the run before this one left>>, or <<>> in a first run

prepVars == <<csv, hashOrder, seedPerm, pc, heap, features, labels, uniq_labels,
              label_2_int, split, train_X, train_y, test_X, test_y,
              train_X_base, test_X_base, train_X_norm, test_X_norm,
              train_X_std, test_X_std, stdout, exc, previous>>

\* The state of the hyperparameter-search notebook.
VARIABLES
  spc,          \* where the search notebook is: "start", "trials", "save", "load", "done", "error"
  dataset,      \* what data() returned: X_train, y_train, X_test, y_test
  trials,       \* trials.trials: one record per finished trial, in order
  calls,        \* what each call of model(...) built and measured, in order
  best_run,     \* the first value optim.minimize returned
  disk,         \* ../data/hyperparameter_trials.pickel
  dumpRaised,   \* what pickle.dump raised in the save step, or "none"
  loaded,       \* t, what the last cell read back
  sout,         \* what the search notebook printed
  sexc          \* its uncaught exception, or "none"

searchVars == <<spc, dataset, trials, calls, best_run, disk, dumpRaised, loaded, sout, sexc>>

\* Cells 4 and 5 of the preprocessing notebook: the three classifiers, and the
\* call of print_accuracy under way.
VARIABLES
  clf_base, clf_norm, clf_std,  \* what get_model returned, or NoModel
  args                          \* the arguments of the call of print_accuracy, or <<>>

evalVars == <<clf_base, clf_norm, clf_std, args>>

vars == <<prepVars, searchVars, evalVars>>

\* A numpy array of features is a reference: rows lo+1..hi of a heap buffer.
\* Basic slicing gives a view of the same buffer; np.copy, fancy indexing and
\* arithmetic give a new buffer.
NoArray == [buf |-> 0, lo |-> 0, hi |-> 0]

\* A classifier name not bound yet.
NoModel == <<>>

ArrIn(h, a) == SubSeq(h[a.buf], a.lo + 1, a.hi)

Arr(a) == ArrIn(heap, a)

\* The reference to the whole of the buffer last allocated in h.
Newest(h) == [buf |-> Len(h), lo |-> 0, hi |-> Len(h[Len(h)])]

\* a[lo:hi], a view.
Slice(a, lo, hi) == [buf |-> a.buf, lo |-> a.lo + lo, hi |-> a.lo + hi]

\* list(labels), the set left out: every occurrence of a label, in row order.
UniqLabelsNoSet(ls) == ls

\* list(set(labels)): the distinct labels, in this process's hash order.
UniqLabels(ls) == SelectSeq(hashOrder, LAMBDA l : l \in Range(ls))

\* dict(zip(uniq_labels, range(len(uniq_labels)))): a key that occurs twice
\* keeps the value paired with its last occurrence.
Label2Int(uniq) ==
  [l \in Range(uniq) |->
    (CHOOSE i \in 1..Len(uniq) :
       uniq[i] = l /\ \A j \in (i + 1)..Len(uniq) : uniq[j] # l) - 1]

SeqMax(s) == CHOOSE v \in Range(s) : \A w \in Range(s) : w <= v

\* The codes taken as 1-based positions: code c sets entry c, code 0 none.
ToCategoricalOneBased(y, nb_classes) ==
  [i \in 1..Len(y) |-> [j \in 1..nb_classes |-> IF j = y[i] THEN 1 ELSE 0]]

\* keras to_categorical(y, nb_classes): one row per code, nb_classes wide, a
\* single 1 at the code's position.
ToCategoricalTo(y, nb_classes) ==
  [i \in 1..Len(y) |-> [j \in 1..nb_classes |-> IF j = y[i] + 1 THEN 1 ELSE 0]]

\* to_categorical(y), y non-empty: nb_classes is max(y) + 1.
ToCategorical(y) == ToCategoricalTo(y, SeqMax(y) + 1)

\* A shuffle whose order changes from process to process (no fixed seed): the
\* seed's order in some processes, its reversal in the others.
ShuffleUnseeded(a) ==
  [i \in 1..Len(a) |->
    a[IF hashOrder[1] = "Grass" THEN seedPerm[i] ELSE seedPerm[Len(a) + 1 - i]]]

\* sklearn.utils.shuffle(a, random_state=0): row i of the result is row
\* seedPerm[i] of a, in a new array.  (np.random.seed(1337) seeds the global
\* generator, which shuffle does not read when random_state is given.)
Shuffle(a) == [i \in 1..Len(a) |-> a[seedPerm[i]]]

\* math.ceil in place of math.floor.
SplitIndexCeil(n) == (3 * n + 3) \div 4

\* math.floor(len(labels) * 0.75): 0.75 and the product are exact doubles.
SplitIndex(n) == (3 * n) \div 4

AsFloat(rows) == [i \in 1..Len(rows) |-> [j \in 1..Len(rows[i]) |-> Float(rows[i][j])]]

Printed(count, what) == [n |-> count, s |-> what]

Raise(e) ==
  /\ exc' = e
  /\ pc' = "error"

\* Cell 2 (lines 84-112): read the CSV, drop the header, encode the labels,
\* shuffle, split, print the two counts.
SplitCell ==
  /\ pc = "split"
  /\ UNCHANGED searchVars
  /\ UNCHANGED evalVars
  /\ UNCHANGED <<csv, hashOrder, seedPerm, previous>>
  /\ UNCHANGED <<train_X_base, test_X_base, train_X_norm, test_X_norm, train_X_std, test_X_std>>
  /\ LET rows == Tail(csv)
         fs == [i \in 1..Len(rows) |-> rows[i].feats]
         ls == [i \in 1..Len(rows) |-> rows[i].label]
         uniq == UniqLabels(ls)
         l2i == Label2Int(uniq)
         codes == [i \in 1..Len(ls) |-> l2i[ls[i]]]
     IN IF \E i \in 1..Len(ls) : ls[i] \notin DOMAIN l2i
          THEN \* label_2_int[l] for a label the mapping has no entry for
               /\ Raise("KeyError")
               /\ uniq_labels' = uniq
               /\ label_2_int' = l2i
               /\ UNCHANGED <<heap, features, labels, split, train_X, train_y,
                              test_X, test_y, stdout>>
        ELSE IF Len(ls) = 0
          THEN \* to_categorical([]) takes np.max of an empty array
               /\ Raise("ValueError")
               /\ uniq_labels' = uniq
               /\ label_2_int' = l2i
               /\ UNCHANGED <<heap, features, labels, split, train_X, train_y,
                              test_X, test_y, stdout>>
          ELSE LET onehot == Shuffle(ToCategorical(codes))
                   h == Append(heap, Shuffle(AsFloat(fs)))
                   at == SplitIndex(Len(onehot))
               IN /\ uniq_labels' = uniq
                  /\ label_2_int' = l2i
                  /\ heap' = h
                  /\ features' = Newest(h)
                  /\ labels' = onehot
                  /\ split' = at
                  /\ train_X' = Slice(Newest(h), 0, at)
                  /\ train_y' = SubSeq(onehot, 1, at)
                  /\ test_X' = Slice(Newest(h), at, Len(onehot))
                  /\ test_y' = SubSeq(onehot, at + 1, Len(onehot))
                  /\ stdout' = stdout \o <<Printed(at, "training samples"),
                                           Printed(Len(onehot) - at, "testing samples")>>
                  /\ pc' = "preprocess"
                  /\ UNCHANGED exc

\* ------------------------------------------------------ cell 3, transforms
\* Min-max scaling without nan_to_num: a zero range leaves nan in the result.
MinMaxScaleKeepsNan(x, ref) ==
  LET lo == NpMin(ref)
      hi == NpMax(ref)
  IN [i \in 1..Len(x) |-> [j \in 1..Len(x[i]) |-> FDiv(FSub(x[i][j], lo), FSub(hi, lo))]]

\* Min-max scaling with the min and max of each column (axis=0), as the
\* z-score transform takes its mean and std.
MinMaxScalePerColumn(x, ref) ==
  [i \in 1..Len(x) |->
    [j \in 1..Len(x[i]) |->
      LET lo == NpMin(<<Column(ref, j)>>)
          hi == NpMax(<<Column(ref, j)>>)
      IN NanToNumEntry(FDiv(FSub(x[i][j], lo), FSub(hi, lo)))]]

\* nan_to_num((x - np.min(ref)) / (np.max(ref) - np.min(ref))): one scalar min
\* and max over all of ref, broadcast over x.
MinMaxScale(x, ref) ==
  LET lo == NpMin(ref)
      hi == NpMax(ref)
  IN [i \in 1..Len(x) |->
       [j \in 1..Len(x[i]) |-> NanToNumEntry(FDiv(FSub(x[i][j], lo), FSub(hi, lo)))]]

\* nan_to_num((x - np.mean(ref, axis=0)) / np.std(ref, axis=0)): the mean and
\* the std of each column of ref, broadcast over the rows of x.
Standardize(x, ref) ==
  LET mu == NpMeanAxis0(ref)
      sd == NpStdAxis0(ref)
  IN [i \in 1..Len(x) |->
       [j \in 1..Len(x[i]) |-> NanToNumEntry(FDiv(FSub(x[i][j], mu[j]), sd[j]))]]

\* The statistics taken from the whole data set, test rows included.
ReferenceAllRows(train, test) == train \o test

\* The matrix every statistic of lines 135-148 is taken from: np.min(train_X),
\* np.max(train_X), np.mean(train_X, axis=0), np.std(train_X, axis=0).
Reference(train, test) == train

\* Lines 135 and 145: the training set scaled.
TrainNorm(train, test) == MinMaxScale(train, Reference(train, test))

TrainStd(train, test) == Standardize(train, Reference(train, test))

\* Lines 136 and 148: the test set scaled.
TestNorm(train, test) == MinMaxScale(test, Reference(train, test))

TestStd(train, test) == Standardize(test, Reference(train, test))

\* A new buffer holding m, and the reference to it.
NewArray(h, m) ==
  [heap |-> Append(h, m), ref |-> [buf |-> Len(h) + 1, lo |-> 0, hi |-> Len(m)]]

\* A plain assignment in place of np.copy: the same buffer under a second name.
NpCopyAliases(h, a) == [heap |-> h, ref |-> a]

\* np.copy(a): a new buffer with a's rows.
NpCopy(h, a) == NewArray(h, ArrIn(h, a))

\* Cell 3 (lines 130-148): the baseline copies, the min-max set, the z-score
\* set.  np.min raises on an empty training set, after the baseline copies.
\* No statement of the cell writes into a buffer, so train_X and test_X read
\* the same rows at every line.
PreprocessCell ==
  /\ pc = "preprocess"
  /\ UNCHANGED searchVars
  /\ UNCHANGED evalVars
  /\ UNCHANGED <<csv, hashOrder, seedPerm, previous, features, labels, uniq_labels,
                 label_2_int, split, train_X, train_y, test_X, test_y, stdout>>
  /\ LET tr == Arr(train_X)
         te == Arr(test_X)
         b1 == NpCopy(heap, train_X)
         b2 == NpCopy(b1.heap, test_X)
     IN /\ train_X_base' = b1.ref
        /\ test_X_base' = b2.ref
        /\ IF tr = <<>>
             THEN /\ heap' = b2.heap
                  /\ Raise("ValueError")
                  /\ UNCHANGED <<train_X_norm, test_X_norm, train_X_std, test_X_std>>
             ELSE LET n1 == NewArray(b2.heap, TrainNorm(tr, te))
                      n2 == NewArray(n1.heap, TestNorm(tr, te))
                      c1 == NpCopy(n2.heap, train_X)
                      c2 == NpCopy(c1.heap, test_X)
                      s1 == NewArray(c2.heap, TrainStd(ArrIn(c1.heap, c1.ref), te))
                      s2 == NewArray(s1.heap, TestStd(tr, ArrIn(c2.heap, c2.ref)))
                  IN /\ train_X_norm' = n1.ref
                     /\ test_X_norm' = n2.ref
                     /\ train_X_std' = s1.ref
                     /\ test_X_std' = s2.ref
                     /\ heap' = s2.heap
                     /\ pc' = "done"
                     /\ UNCHANGED exc

\* ------------------------------------------------------ cell 4, get_model
\* The units of the last layer of get_model: Dense(18, ..., activation='softmax').
SoftmaxUnits == 18

\* get_model(num_inputs), lines 177-185: the layers of the Sequential model.
\* (compile fixes the loss, the optimizer and the metric; it adds no layer.)
get_model(num_inputs) ==
  <<[kind |-> "Dense", units |-> 128, input_dim |-> num_inputs, activation |-> "relu"],
    [kind |-> "Dropout", rate |-> "0.5"],
    [kind |-> "Dense", units |-> 64, activation |-> "relu"],
    [kind |-> "Dropout", rate |-> "0.5"],
    [kind |-> "Dense", units |-> SoftmaxUnits, activation |-> "softmax"]>>

\* The width of what a model returns: the units of its last layer.
OutputUnits(m) == m[Len(m)].units

\* clf.fit(X, y, ...): keras checks the arrays against the model before it
\* trains, and raises unless the rows of X are input_dim wide and the rows of
\* y as wide as the model's output.
FitAccepts(m, X, y) ==
  /\ \A i \in 1..Len(X) : Len(X[i]) = m[1].input_dim
  /\ \A i \in 1..Len(y) : Len(y[i]) = OutputUnits(m)

\* print('Base classifier training complete.') and the two prints after it.
Completed(name) == [s |-> "classifier training complete.", name |-> name]

\* Cell 4 (lines 177-196): three models from get_model, each fitted on its
\* feature set and train_y.  The first fit that raises ends the cell.  The
\* weights a fit leaves are not held: predict is free in what it returns.
TrainCell ==
  /\ pc = "done"
  /\ UNCHANGED searchVars
  /\ UNCHANGED args
  /\ UNCHANGED <<csv, hashOrder, seedPerm, previous, heap, features, labels, uniq_labels,
                 label_2_int, split, train_X, train_y, test_X, test_y>>
  /\ UNCHANGED <<train_X_base, test_X_base, train_X_norm, test_X_norm, train_X_std, test_X_std>>
  /\ LET m == get_model(Width(Arr(train_X)))
     IN /\ clf_base' = m
        /\ clf_norm' = m
        /\ clf_std' = m
        /\ IF /\ FitAccepts(m, Arr(train_X_base), train_y)
              /\ FitAccepts(m, Arr(train_X_norm), train_y)
              /\ FitAccepts(m, Arr(train_X_std), train_y)
             THEN /\ stdout' = stdout \o <<Completed("Base"), Completed("Regularized"),
                                           Completed("Standardized")>>
                  /\ pc' = "trained"
                  /\ UNCHANGED exc
             ELSE /\ Raise("ValueError")
                  /\ UNCHANGED stdout

\* ------------------------------------------------- cell 5, print_accuracy
\* np.argmax(v): the 0-based position of the first greatest entry of v.  The
\* entries are compared only, so a score is held as a whole number of
\* hundredths.
NpArgmax(v) ==
  (CHOOSE j \in 1..Len(v) :
     /\ \A k \in 1..Len(v) : v[k] <= v[j]
     /\ \A k \in 1..(j - 1) : v[k] < v[j]) - 1

\* The loop comparing np.max in place of np.argmax.
CorrectComparesMax(expected, predicted) ==
  Cardinality({i \in 1..Len(predicted) : SeqMax(predicted[i]) = SeqMax(expected[i])})

\* The loop of lines 225-228: correct counts the positions of predicted whose
\* argmax is the argmax of expected at the same position.
Correct(expected, predicted) ==
  Cardinality({i \in 1..Len(predicted) : NpArgmax(predicted[i]) = NpArgmax(expected[i])})

\* [np.argmax(pred) for pred in rows], line 241.
ArgmaxRows(rows) == [i \in 1..Len(rows) |-> NpArgmax(rows[i])]

\* The m in 0..99 for which '%.2f' prints the double nearest to (2m+1)/200 as
\* (m+1)/100: the double lies above the tie, or is the tie (a multiple of 1/8)
\* and m is odd.  For the other m it prints m/100.
HalfRoundsUp ==
  {0, 2, 3, 5, 6, 8, 9, 11, 13, 16, 19, 22, 25, 26, 27, 31, 32, 33, 37, 38, 39,
   40, 44, 45, 46, 50, 51, 52, 53, 54, 55, 63, 64, 65, 66, 67, 68, 75, 76, 77,
   78, 79, 80, 87, 88, 89, 90, 91, 92, 93}

\* '%.2f' % (c / n) for 0 <= c <= n, n > 0, as a number of hundredths: the
\* decimal of two places nearest to the double c / n.  Off a tie the double is
\* on the side of the tie the quotient is on.
Format2(c, n) ==
  IF (200 * c) % n = 0 /\ ((200 * c) \div n) % 2 = 1
    THEN LET m == (((200 * c) \div n) - 1) \div 2
         IN IF m \in HalfRoundsUp THEN m + 1 ELSE m
    ELSE (200 * c + n) \div (2 * n)

\* 'Accuracy of %s: %.2f' % (name, ...).
AccuracyLine(name, hundredths) == [s |-> "Accuracy of", name |-> name, n |-> hundredths]

\* print_accuracy(name, expected, predicted), lines 224-229.  The divisor is
\* the global test_y, not an argument.
print_accuracy ==
  /\ pc = "print_accuracy"
  /\ UNCHANGED searchVars
  /\ UNCHANGED evalVars
  /\ UNCHANGED <<csv, hashOrder, seedPerm, previous, heap, features, labels, uniq_labels,
                 label_2_int, split, train_X, train_y, test_X, test_y>>
  /\ UNCHANGED <<train_X_base, test_X_base, train_X_norm, test_X_norm, train_X_std, test_X_std>>
  /\ IF Len(args.expected) < Len(args.predicted)
       THEN \* expected[i] past the end of expected
            /\ Raise("IndexError")
            /\ UNCHANGED stdout
       ELSE IF Len(test_y) = 0
              THEN /\ Raise("ZeroDivisionError")
                   /\ UNCHANGED stdout
              ELSE /\ stdout' = Append(stdout,
                          AccuracyLine(args.name,
                                       Format2(Correct(args.expected, args.predicted),
                                               Len(test_y))))
                   /\ pc' = "printed"
                   /\ UNCHANGED exc

\* ------------------------------------------------------------- the runs
ArrOr(a) == IF a.buf = 0 THEN <<>> ELSE Arr(a)

\* What a run of the notebook leaves to compare the next run with.
Snapshot ==
  [csv |-> csv, pc |-> pc, exc |-> exc, uniq_labels |-> uniq_labels,
   label_2_int |-> label_2_int, split |-> split,
   features |-> ArrOr(features), labels |-> labels,
   train_X |-> ArrOr(train_X), test_X |-> ArrOr(test_X),
   train_y |-> train_y, test_y |-> test_y,
   train_X_base |-> ArrOr(train_X_base), test_X_base |-> ArrOr(test_X_base),
   train_X_norm |-> ArrOr(train_X_norm), test_X_norm |-> ArrOr(test_X_norm),
   train_X_std |-> ArrOr(train_X_std), test_X_std |-> ArrOr(test_X_std)]

\* The namespace of a kernel that has run no cell yet.
FreshNamespace ==
  /\ pc = "split"
  /\ heap = <<>>
  /\ features = NoArray
  /\ labels = <<>>
  /\ uniq_labels = <<>>
  /\ label_2_int = <<>>
  /\ split = 0
  /\ train_X = NoArray
  /\ train_y = <<>>
  /\ test_X = NoArray
  /\ test_y = <<>>
  /\ train_X_base = NoArray
  /\ test_X_base = NoArray
  /\ train_X_norm = NoArray
  /\ test_X_norm = NoArray
  /\ train_X_std = NoArray
  /\ test_X_std = NoArray
  /\ stdout = <<>>
  /\ exc = "none"
  /\ clf_base = NoModel
  /\ clf_norm = NoModel
  /\ clf_std = NoModel

\* The same namespace, as the state a restarted kernel starts in.
RestartedNamespace ==
  /\ pc' = "split"
  /\ heap' = <<>>
  /\ features' = NoArray
  /\ labels' = <<>>
  /\ uniq_labels' = <<>>
  /\ label_2_int' = <<>>
  /\ split' = 0
  /\ train_X' = NoArray
  /\ train_y' = <<>>
  /\ test_X' = NoArray
  /\ test_y' = <<>>
  /\ train_X_base' = NoArray
  /\ test_X_base' = NoArray
  /\ train_X_norm' = NoArray
  /\ test_X_norm' = NoArray
  /\ train_X_std' = NoArray
  /\ test_X_std' = NoArray
  /\ stdout' = <<>>
  /\ exc' = "none"
  /\ clf_base' = NoModel
  /\ clf_norm' = NoModel
  /\ clf_std' = NoModel

\* Restart the kernel and run the notebook again on the same CSV: a new
\* process (a new hash seed, so a new set order), the same seeds in the code.
Rerun ==
  /\ pc \in {"done", "error"}
  /\ previous' = <<Snapshot>>
  /\ hashOrder' \in Perms(Labels)
  /\ UNCHANGED <<csv, seedPerm>>
  /\ UNCHANGED searchVars
  /\ UNCHANGED args
  /\ RestartedNamespace

\* ---------------------------------------------- hyperparameter notebook
\* The most trials a search of the model runs (max_evals), and the samples of
\* the test set of the model's MNIST.
MaxEvals == 3
NTest == 2

STATUS_OK == "ok"

\* mnist.load_data(), cut down: one pixel a sample, labels among the 10 digits.
Mnist ==
  [X_train |-> <<<<0>>, <<255>>, <<51>>>>, y_train |-> <<3, 7, 0>>,
   X_test |-> [i \in 1..NTest |-> <<(i * 85) % 256>>], y_test |-> [i \in 1..NTest |-> (i * 3) % 10]]

\* data() (lines 83-94): pixels as floats over 255, labels one-hot over 10.
data ==
  LET scaled(X) == [i \in 1..Len(X) |-> [j \in 1..Len(X[i]) |-> Num(X[i][j], 255, 1)]]
  IN [X_train |-> scaled(Mnist.X_train), y_train |-> ToCategoricalTo(Mnist.y_train, 10),
      X_test |-> scaled(Mnist.X_test), y_test |-> ToCategoricalTo(Mnist.y_test, 10)]

\* The choice lists of model(...)'s template (lines 109-123); a sampled
\* configuration holds an index into each and a float for each uniform.
DenseSizes == <<256, 512, 1024>>
Activations == <<"relu", "sigmoid">>
Branches == <<"three", "four">>
ExtraSizes == <<64, 128, 256>>
Optimizers == <<"rmsprop", "adam", "sgd">>

\* The configurations tpe.suggest draws in the model: either activation, either
\* side of the conditional branch, the other parameters at one value each.
Suggested ==
  [Dense : {0}, Dropout : {Num(1, 2, 1)}, Activation : {0, 1}, Dense_1 : {2},
   Dropout_1 : {Num(1, 4, 1)}, conditional : {0, 1}, Dense_2 : {1}, optimizer : {0}]

Layer(kind, arg) == [kind |-> kind, arg |-> arg]

\* The layer stack lines 106-120 build for configuration c.
Layers(c) ==
  <<Layer("Dense", 512), Layer("Activation", "relu"),
    Layer("Dense", DenseSizes[c.Dense + 1]), Layer("Dropout", c.Dropout),
    Layer("Activation", Activations[c.Activation + 1]),
    Layer("Dense", DenseSizes[c.Dense_1 + 1]), Layer("Dropout", c.Dropout_1)>>
  \o (IF Branches[c.conditional + 1] = "four"
        THEN <<Layer("Dense", ExtraSizes[c.Dense_2 + 1]), Layer("Dropout", Num(1, 2, 1))>>
        ELSE <<>>)
  \o <<Layer("Dense", 10), Layer("Activation", "softmax")>>

FNeg(a) == Num(-a.n, a.d, 1)

\* The record with the sign of the accuracy kept.
modelLossIsAccuracy(c, d, correct) ==
  LET acc == Num(correct, Len(d.X_test), 1)
  IN [layers |-> Layers(c), optimizer |-> Optimizers[c.optimizer + 1], acc |-> acc,
      dataset |-> d, result |-> [loss |-> acc, status |-> STATUS_OK]]

\* model(X_train, y_train, X_test, y_test) (lines 105-132) under configuration
\* c, on the tensors d, when the network it trained classifies `correct` of the
\* test samples rightly: what it built, the accuracy model.evaluate measured,
\* the tensors as the call leaves them, and the record it returns.
model(c, d, correct) ==
  LET acc == Num(correct, Len(d.X_test), 1)
  IN [layers |-> Layers(c), optimizer |-> Optimizers[c.optimizer + 1], acc |-> acc,
      dataset |-> d, result |-> [loss |-> FNeg(acc), status |-> STATUS_OK]]

\* The last trial, whatever its loss.
BestIndexLast(ts) == Len(ts)

\* The trial optim.minimize reports (lines 207-213; hyperopt's argmin): the
\* first of the trials whose loss is the least.
BestIndex(ts) ==
  CHOOSE i \in 1..Len(ts) :
    /\ \A j \in 1..Len(ts) : FLeq(ts[i].result.loss, ts[j].result.loss)
    /\ \A j \in 1..(i - 1) : ~FLeq(ts[j].result.loss, ts[i].result.loss)

Line(text) == [text |-> text]

\* Lines 206-213, entry: trials = Trials(); optim.minimize calls data() once.
StartSearch ==
  /\ spc = "start"
  /\ dataset' = data
  /\ trials' = <<>>
  /\ spc' = "trials"
  /\ UNCHANGED <<calls, best_run, disk, dumpRaised, loaded, sout, sexc>>
  /\ UNCHANGED prepVars
  /\ UNCHANGED evalVars

\* One evaluation of optim.minimize: a configuration is drawn, model(...) is
\* called on the loaded tensors, its record joins the trials.
Trial ==
  /\ spc = "trials"
  /\ Len(trials) < MaxEvals
  /\ \E c \in Suggested, correct \in 0..NTest :
       LET r == model(c, dataset, correct)
       IN /\ trials' = Append(trials, [vals |-> c, result |-> r.result])
          /\ calls' = Append(calls, [layers |-> r.layers, acc |-> r.acc])
          /\ dataset' = r.dataset
  /\ UNCHANGED <<spc, best_run, disk, dumpRaised, loaded, sout, sexc>>
  /\ UNCHANGED prepVars
  /\ UNCHANGED evalVars

\* Lines 207-216, exit: after max_evals evaluations optim.minimize returns the
\* best trial's configuration, and the cell prints it.
Report ==
  /\ spc = "trials"
  /\ Len(trials) = MaxEvals
  /\ best_run' = trials[BestIndex(trials)].vals
  /\ sout' = sout \o <<Line("Best run scored was"), Line("best_run")>>
  /\ spc' = "save"
  /\ UNCHANGED <<dataset, trials, calls, disk, dumpRaised, loaded, sexc>>
  /\ UNCHANGED prepVars
  /\ UNCHANGED evalVars

\* The names bound in the notebook's global namespace when the save step runs
\* (the imports of cell 1, the two functions, the assignments of cell 10).
BoundNames ==
  {"pickle", "pprint", "mnist", "to_categorical", "Sequential", "Dense", "Dropout",
   "Activation", "Trials", "STATUS_OK", "tpe", "optim", "choice", "uniform",
   "conditional", "data", "model", "trials", "best_run", "foo"}

\* What the save step's pickle.dump(trials.trials, open(..., 'wb'), ...) may
\* do: succeed, fail in open (no ../data directory), fail in dump.
DumpOutcomes == {"none", "FileNotFoundError", "PicklingError"}

\* `except <name>:` once the try body has raised: Python evaluates <name> to
\* find the class to match; an unbound name raises NameError there, and that
\* error leaves the try statement uncaught.
ExceptClause(name) == IF name \in BoundNames THEN "caught" ELSE "NameError"

\* Lines 218-222: try: pickle.dump(...) except e: print(e).
Save ==
  /\ spc = "save"
  /\ \E outcome \in DumpOutcomes :
       /\ dumpRaised' = outcome
       /\ disk' = CASE outcome = "none" -> [exists |-> TRUE, content |-> trials]
                    [] outcome = "PicklingError" -> [exists |-> TRUE, content |-> <<>>]
                    [] OTHER -> disk
       /\ IF outcome = "none"
            THEN /\ spc' = "load"
                 /\ UNCHANGED <<sout, sexc>>
            ELSE IF ExceptClause("e") = "caught"
                   THEN /\ sout' = Append(sout, Line(outcome))
                        /\ spc' = "load"
                        /\ UNCHANGED sexc
                   ELSE /\ sexc' = ExceptClause("e")
                        /\ spc' = "error"
                        /\ UNCHANGED sout
  /\ UNCHANGED <<dataset, trials, calls, best_run, loaded>>
  /\ UNCHANGED prepVars
  /\ UNCHANGED evalVars

\* Lines 234-235: file = open(..., 'rb'); t = pickle.load(file).
LoadTrials ==
  /\ spc = "load"
  /\ IF ~disk.exists
       THEN /\ sexc' = "FileNotFoundError"
            /\ spc' = "error"
            /\ UNCHANGED loaded
       ELSE IF disk.content = <<>>
         THEN /\ sexc' = "EOFError"
              /\ spc' = "error"
              /\ UNCHANGED loaded
         ELSE /\ loaded' = disk.content
              /\ spc' = "done"
              /\ UNCHANGED sexc
  /\ UNCHANGED <<dataset, trials, calls, best_run, disk, dumpRaised, sout>>
  /\ UNCHANGED prepVars
  /\ UNCHANGED evalVars

\* The search notebook before its first cell runs; the pickle file absent.
SearchFresh ==
  /\ spc = "start"
  /\ dataset = <<>>
  /\ trials = <<>>
  /\ calls = <<>>
  /\ best_run = <<>>
  /\ disk = [exists |-> FALSE, content |-> <<>>]
  /\ dumpRaised = "none"
  /\ loaded = <<>>
  /\ sout = <<>>
  /\ sexc = "none"

\* CSVs of 0..MaxRows data rows, row i carrying the features <<i, i>>, under
\* every labelling, every set order and every order the seed may give.
DataRows(n) == {[i \in 1..n |-> [label |-> l[i], feats |-> <<i, i>>]] : l \in [1..n -> Labels]}

Init ==
  /\ \E n \in 0..MaxRows :
       /\ csv \in {<<HeaderRow>> \o rows : rows \in DataRows(n)}
       /\ seedPerm \in Perms(1..n)
  /\ hashOrder \in Perms(Labels)
  /\ previous = <<>>
  /\ FreshNamespace
  /\ args = <<>>
  /\ SearchFresh

Next ==
  \/ SplitCell
  \/ PreprocessCell
  \/ Rerun

Spec == Init /\ [][Next]_vars

\* One run of the notebook on a CSV of MaxRows data rows, under every choice
\* of feature rows, the labels alternating, the seed's order the identity or
\* the reversal.
FeatureData(n) ==
  {[i \in 1..n |-> [label |-> IF i % 2 = 1 THEN "Grass" ELSE "Water", feats |-> f[i]]] :
     f \in [1..n -> FeatureRows]}

InitPrep ==
  /\ csv \in {<<HeaderRow>> \o rows : rows \in FeatureData(MaxRows)}
  /\ seedPerm \in {[i \in 1..MaxRows |-> i], [i \in 1..MaxRows |-> MaxRows + 1 - i]}
  /\ hashOrder = <<"Water", "Grass">>
  /\ previous = <<>>
  /\ FreshNamespace
  /\ args = <<>>
  /\ SearchFresh

NextPrep ==
  \/ SplitCell
  \/ PreprocessCell

SpecPrep == InitPrep /\ [][NextPrep]_vars

\* The search notebook alone, beside a preprocessing notebook that never runs.
InitSearch ==
  /\ csv = <<HeaderRow>>
  /\ seedPerm = <<>>
  /\ hashOrder = <<"Grass", "Water">>
  /\ previous = <<>>
  /\ FreshNamespace
  /\ args = <<>>
  /\ SearchFresh

NextSearch ==
  \/ StartSearch
  \/ Trial
  \/ Report
  \/ Save
  \/ LoadTrials

SpecSearch == InitSearch /\ [][NextSearch]_vars

\* print_accuracy alone, on the arguments the notebook calls it with: expected
\* is test_y, predicted holds one row of SoftmaxUnits scores for each row of
\* test_y.  The test sets have 1..SmallTest rows, or LargeTest rows.
SmallTest == 3
LargeTest == 201

\* A row of scores whose greatest entry is at class c; a row of equal scores.
Peak(c) == [j \in 1..SoftmaxUnits |-> IF j = c + 1 THEN 83 ELSE 1]

Flat == [j \in 1..SoftmaxUnits |-> 5]

\* The one-hot rows of a test set of n rows: row i of class (i * stride) mod
\* SoftmaxUnits.
TestLabels(n, stride) ==
  [i \in 1..n |-> [j \in 1..SoftmaxUnits |-> IF j = ((i * stride) % SoftmaxUnits) + 1 THEN 1 ELSE 0]]

\* What clf.predict may return for a test set ty: the first m rows with the
\* argmax of ty, the rest one class off; for a small test set, every choice
\* per row among the right class, the class one off and the flat row.
Predictions(ty) ==
  LET right(i) == Peak(NpArgmax(ty[i]))
      wrong(i) == Peak((NpArgmax(ty[i]) + 1) % SoftmaxUnits)
  IN {[i \in 1..Len(ty) |-> IF i <= m THEN right(i) ELSE wrong(i)] : m \in 0..Len(ty)}
       \cup (IF Len(ty) <= SmallTest
               THEN {[i \in 1..Len(ty) |-> IF f[i] = 0 THEN right(i)
                                           ELSE IF f[i] = 1 THEN wrong(i) ELSE Flat] :
                       f \in [1..Len(ty) -> 0..2]}
               ELSE {})

InitAccuracy ==
  /\ csv = <<HeaderRow>>
  /\ seedPerm = <<>>
  /\ hashOrder = <<"Grass", "Water">>
  /\ previous = <<>>
  /\ heap = <<>>
  /\ features = NoArray
  /\ labels = <<>>
  /\ uniq_labels = <<>>
  /\ label_2_int = <<>>
  /\ split = 0
  /\ train_X = NoArray
  /\ train_y = <<>>
  /\ test_X = NoArray
  /\ train_X_base = NoArray
  /\ test_X_base = NoArray
  /\ train_X_norm = NoArray
  /\ test_X_norm = NoArray
  /\ train_X_std = NoArray
  /\ test_X_std = NoArray
  /\ clf_base = NoModel
  /\ clf_norm = NoModel
  /\ clf_std = NoModel
  /\ stdout = <<>>
  /\ exc = "none"
  /\ pc = "print_accuracy"
  /\ \E n \in (1..SmallTest) \cup {LargeTest}, stride \in {1, 5} :
       test_y = TestLabels(n, stride)
  /\ \E name \in {"Base", "Regularized", "Standardized"} :
       \E p \in Predictions(test_y) :
         args = [name |-> name, expected |-> test_y, predicted |-> p]
  /\ SearchFresh

NextAccuracy == print_accuracy

SpecAccuracy == InitAccuracy /\ [][NextAccuracy]_vars

\* Cells 2 to 4 on the CSVs of Init, and on CSVs of SoftmaxUnits rows whose
\* labels are the first k of the eighteen types of Pokemon.csv, k = 1..18 (row
\* i of type min(i, k)), the set order the order of Types or its reversal.
Types ==
  <<"Grass", "Fire", "Water", "Bug", "Normal", "Poison", "Electric", "Ground",
    "Fairy", "Fighting", "Psychic", "Rock", "Ghost", "Ice", "Dragon", "Dark",
    "Steel", "Flying">>

TypeRows(k) ==
  [i \in 1..Len(Types) |-> [label |-> Types[IF i < k THEN i ELSE k], feats |-> <<i, i>>]]

InitTrain ==
  /\ \/ /\ \E n \in 0..MaxRows :
             /\ csv \in {<<HeaderRow>> \o rows : rows \in DataRows(n)}
             /\ seedPerm \in Perms(1..n)
        /\ hashOrder \in Perms(Labels)
     \/ /\ \E k \in 1..Len(Types) : csv = <<HeaderRow>> \o TypeRows(k)
        /\ seedPerm \in {[i \in 1..Len(Types) |-> i],
                         [i \in 1..Len(Types) |-> Len(Types) + 1 - i]}
        /\ hashOrder \in {Types, [i \in 1..Len(Types) |-> Types[Len(Types) + 1 - i]]}
  /\ previous = <<>>
  /\ FreshNamespace
  /\ args = <<>>
  /\ SearchFresh

NextTrain ==
  \/ SplitCell
  \/ PreprocessCell
  \/ TrainCell

SpecTrain == InitTrain /\ [][NextTrain]_vars

\* ============================================================== claims
\* The cells that have run.
AfterSplit == pc \in {"preprocess", "done"}

AfterPreprocess == pc = "done"

FloatRows == {[j \in 1..Len(r) |-> Float(r[j])] : r \in FeatureRows}

\* Every test matrix of the shape of te.
AltTests(te) == [1..Len(te) -> FloatRows]

\* C1: no leakage.  Whatever test matrix t a second run holds beside the same
\* training matrix, its min-max and z-score training sets are the ones this
\* run built, and wherever t agrees with this run's test matrix on an entry,
\* the two runs' transformed test sets agree on that entry.
C1_NoLeakage ==
  AfterPreprocess =>
    LET tr == Arr(train_X)
        te == Arr(test_X)
    IN \A t \in AltTests(te) :
         LET norm == TestNorm(tr, t)
             std == TestStd(tr, t)
         IN /\ TrainNorm(tr, t) = Arr(train_X_norm)
            /\ TrainStd(tr, t) = Arr(train_X_std)
            /\ \A i \in 1..Len(te) : \A j \in 1..Len(te[i]) :
                 t[i][j] = te[i][j] =>
                   /\ norm[i][j] = Arr(test_X_norm)[i][j]
                   /\ std[i][j] = Arr(test_X_std)[i][j]

\* A run whose test set holds a value outside the training set's range, with a
\* training set that is not constant: statistics taken over the test rows too
\* would differ from the training set's.
C1_Witness ==
  /\ AfterPreprocess
  /\ NpMin(Arr(train_X)) # NpMax(Arr(train_X))
  /\ \/ NpMin(Arr(test_X)) # NpMin(Arr(train_X) \o Arr(test_X))
     \/ NpMax(Arr(test_X)) # NpMax(Arr(train_X) \o Arr(test_X))
  /\ \E i \in 1..Len(Arr(test_X)) : Arr(test_X_norm)[i][1] # Arr(test_X_norm)[i][2]

\* The entries of a matrix, as a set of <<row, column>> indexes.
Entries(m) == {<<i, j>> : i \in 1..Len(m), j \in 1..(IF m = <<>> THEN 0 ELSE Len(m[1]))}

IsConstant(c) == \A a \in Range(c) : \A b \in Range(c) : a = b

\* C2: a zero divisor gives zeros.  When max(train) = min(train), every entry
\* of both min-max sets is 0; when a column of the training set has zero
\* variance, that column of both z-score sets is 0.
C2_ZeroDivisorGivesZero ==
  AfterPreprocess =>
    LET tr == Arr(train_X)
        te == Arr(test_X)
    IN /\ IsConstant(Flatten(tr)) =>
            /\ \A e \in Entries(tr) : Arr(train_X_norm)[e[1]][e[2]] = Float(0)
            /\ \A e \in Entries(te) : Arr(test_X_norm)[e[1]][e[2]] = Float(0)
       /\ \A j \in 1..Width(tr) :
            IsConstant(Column(tr, j)) =>
              /\ \A i \in 1..Len(tr) : Arr(train_X_std)[i][j] = Float(0)
              /\ \A i \in 1..Len(te) : Arr(test_X_std)[i][j] = Float(0)

InUnit(v) == v.k = "fin" /\ v.q = 1 /\ 0 <= v.n /\ v.n <= v.d

\* C6: the min-max training set lies in [0, 1], and so does every entry of
\* the min-max test set whose raw value lies between min(train) and
\* max(train).
C6_MinMaxInUnitInterval ==
  AfterPreprocess =>
    LET tr == Arr(train_X)
        te == Arr(test_X)
    IN /\ \A e \in Entries(tr) : InUnit(Arr(train_X_norm)[e[1]][e[2]])
       /\ \A e \in Entries(te) :
            (\E a \in Range(Flatten(tr)) : FLeq(a, te[e[1]][e[2]])) /\
            (\E b \in Range(Flatten(tr)) : FLeq(te[e[1]][e[2]], b))
              => InUnit(Arr(test_X_norm)[e[1]][e[2]])

\* A constant training set (the zero range) and a test row that holds the
\* constant, which is in range, beside another value, which is not.
C6_Witness ==
  /\ AfterPreprocess
  /\ IsConstant(Flatten(Arr(train_X)))
  /\ \E e \in Entries(Arr(test_X)) : Arr(test_X)[e[1]][e[2]] = Arr(train_X)[1][1]
  /\ \E e \in Entries(Arr(test_X)) : Arr(test_X)[e[1]][e[2]] # Arr(train_X)[1][1]

ExampleTrain == AsFloat(<<<<0, 10>>, <<5, 5>>, <<10, 0>>>>)

Half == [k |-> "fin", n |-> 1, d |-> 2, q |-> 1]

ExampleNorm == <<<<Float(0), Float(1)>>, <<Half, Half>>, <<Float(1), Float(0)>>>>

\* C7: min-max scaling is (x - min) / (max - min) with the one min and the one
\* max of the whole training matrix, on every entry of both sets (stated by
\* cross-multiplication, for max # min); the train set [[0,10],[5,5],[10,0]]
\* becomes [[0,1],[0.5,0.5],[1,0]].
C7_GlobalMinMax ==
  AfterPreprocess =>
    LET tr == Arr(train_X)
        te == Arr(test_X)
        all == Range(Flatten(tr))
        lo == CHOOSE a \in all : \A b \in all : a.n <= b.n
        hi == CHOOSE a \in all : \A b \in all : b.n <= a.n
        Scaled(x, v) == v.k = "fin" /\ v.q = 1 /\ v.n * (hi.n - lo.n) = v.d * (x.n - lo.n)
    IN /\ lo # hi =>
            /\ \A e \in Entries(tr) : Scaled(tr[e[1]][e[2]], Arr(train_X_norm)[e[1]][e[2]])
            /\ \A e \in Entries(te) : Scaled(te[e[1]][e[2]], Arr(test_X_norm)[e[1]][e[2]])
       /\ tr = ExampleTrain => Arr(train_X_norm) = ExampleNorm

\* The example train set, with a test row whose columns have different ranges
\* in the training set's columns.
C7_Witness ==
  /\ AfterPreprocess
  /\ Arr(train_X) = ExampleTrain
  /\ Arr(train_X_norm) = ExampleNorm
  /\ Arr(test_X) = AsFloat(<<<<5, 0>>>>)

\* The one-hot row of label l under this run's label_2_int.
OneHotOf(l) == [j \in 1..Len(uniq_labels) |-> IF j = label_2_int[l] + 1 THEN 1 ELSE 0]

\* C4: the split is positional at floor(0.75 * n).  The training set has the
\* k = floor(0.75 * n) first shuffled rows and the test set the n - k others
\* (600 and 200 of 800); features and labels are cut at the same index, so
\* shuffled row i, which is CSV row seedPerm[i], sits with its own label at
\* position i of the training set or at position i - k of the test set.
C4_PositionalSplit ==
  /\ SplitIndex(800) = 600
  /\ 800 - SplitIndex(800) = 200
  /\ AfterSplit =>
       LET n == Len(csv) - 1
           k == CHOOSE m \in 0..n : 4 * m <= 3 * n /\ 3 * n < 4 * (m + 1)
           row(i) == csv[seedPerm[i] + 1]
       IN /\ split = k
          /\ Len(Arr(train_X)) = k /\ Len(train_y) = k
          /\ Len(Arr(test_X)) = n - k /\ Len(test_y) = n - k
          /\ \A i \in 1..k :
               /\ Arr(train_X)[i] = AsFloat(<<row(i).feats>>)[1]
               /\ train_y[i] = OneHotOf(row(i).label)
          /\ \A i \in (k + 1)..n :
               /\ Arr(test_X)[i - k] = AsFloat(<<row(i).feats>>)[1]
               /\ test_y[i - k] = OneHotOf(row(i).label)

\* Three rows (0.75 * 3 is no integer) of both labels, shuffled out of order.
C4_Witness ==
  /\ AfterSplit
  /\ Len(csv) - 1 = 3
  /\ split = 2
  /\ seedPerm = <<3, 1, 2>>
  /\ Len(uniq_labels) = 2

\* Whether cell 2 has run to its end in this run.
SplitDone == features.buf # 0

\* The label strings one-hot rows stand for under the label order uniq.
Decoded(onehot, uniq) ==
  [i \in 1..Len(onehot) |-> uniq[CHOOSE j \in 1..Len(onehot[i]) : onehot[i][j] = 1]]

\* C5: split determinism.  A second run on the same CSV puts the same feature
\* rows, in the same order, carrying the same label strings, in the training
\* set and in the test set, and prints the same counts; only the integer code
\* of a label string (uniq_labels, label_2_int, the one-hot columns) may
\* differ.
C5_SplitDeterminism ==
  \A r \in 1..Len(previous) :
    (previous[r].csv = csv /\ pc \in {"preprocess", "done", "error"}) =>
      /\ SplitDone <=> previous[r].labels # <<>>
      /\ SplitDone =>
           /\ split = previous[r].split
           /\ Arr(train_X) = previous[r].train_X
           /\ Arr(test_X) = previous[r].test_X
           /\ Decoded(train_y, uniq_labels) = Decoded(previous[r].train_y, previous[r].uniq_labels)
           /\ Decoded(test_y, uniq_labels) = Decoded(previous[r].test_y, previous[r].uniq_labels)

\* A second run that codes the labels differently from the first, on a CSV
\* whose training rows carry both labels.
C5_Witness ==
  /\ previous # <<>>
  /\ SplitDone
  /\ Len(uniq_labels) = 2
  /\ uniq_labels # previous[1].uniq_labels
  /\ train_y # previous[1].train_y
  /\ seedPerm # [i \in 1..(Len(csv) - 1) |-> i]

\* C8: copy semantics.  Cell 3 leaves the rows train_X and test_X hold as the
\* split left them, its baseline sets hold those rows in buffers of their own,
\* and none of its six results shares a buffer with train_X or test_X.
C8_CopySemantics ==
  [][pc = "preprocess" =>
       /\ Arr(train_X)' = Arr(train_X)
       /\ Arr(test_X)' = Arr(test_X)
       /\ Arr(train_X_base)' = Arr(train_X)
       /\ Arr(test_X_base)' = Arr(test_X)
       /\ \A a \in {train_X_base', test_X_base'} : a.buf \notin {0, features.buf}
       /\ train_X_base'.buf # test_X_base'.buf
       /\ pc' = "done" =>
            \A a \in {train_X_norm', test_X_norm', train_X_std', test_X_std'} :
              a.buf \notin {0, features.buf, train_X_base'.buf, test_X_base'.buf}]_vars

\* Cell 3 has built all six sets from a non-empty training set.
C8_Witness ==
  /\ AfterPreprocess
  /\ Arr(train_X_base) = Arr(train_X)
  /\ Arr(train_X_norm) # Arr(train_X)
  /\ Arr(test_X_std) # Arr(test_X)
  /\ Len(heap) = 9

\* C3: a failure of the save step is caught.  Once pickle.dump has raised, its
\* message is printed after the best run, and the notebook goes on without an
\* uncaught exception.
C3_SaveFailureIsCaught ==
  dumpRaised # "none" =>
    /\ sexc = "none"
    /\ spc # "error"
    /\ \E i \in 1..Len(sout) :
         /\ sout[i].text = dumpRaised
         /\ \E j \in 1..(i - 1) : sout[j].text = "best_run"

\* The search notebook has reported its best run.
Reported == spc \in {"save", "load", "done", "error"}

C10_TrialContract ==
  /\ Len(calls) = Len(trials)
  /\ spc # "start" => dataset = data
  /\ \A i \in 1..Len(trials) :
       /\ trials[i].result.status = STATUS_OK
       /\ DOMAIN trials[i].result = {"loss", "status"}
       /\ calls[i].acc.k = "fin" /\ calls[i].acc.q = 1
       /\ \E correct \in 0..Len(dataset.X_test) :
            calls[i].acc.n * Len(dataset.X_test) = correct * calls[i].acc.d
       /\ trials[i].result.loss.k = "fin" /\ trials[i].result.loss.q = 1
       /\ trials[i].result.loss.d = calls[i].acc.d
       /\ trials[i].result.loss.n + calls[i].acc.n = 0
       /\ Len(calls[i].layers) = IF trials[i].vals.conditional = 1 THEN 11 ELSE 9

\* Two trials on the two sides of the branch, both with a non-zero accuracy,
\* the second measured like the first although a trial came before it.
C10_Witness ==
  /\ Len(trials) >= 2
  /\ trials[1].vals.conditional = 0
  /\ trials[2].vals.conditional = 1
  /\ calls[1].acc = Half
  /\ calls[2].acc = Half
  /\ trials[2].result.loss = trials[1].result.loss

\* The call of print_accuracy has returned.
AccuracyPrinted == pc = "printed"

\* The positions at which the prediction's argmax is the expected one.
Matches ==
  {i \in 1..Len(args.predicted) : NpArgmax(args.predicted[i]) = NpArgmax(args.expected[i])}

\* The figure of the line print_accuracy printed, in hundredths.
ReportedAccuracy == stdout[Len(stdout)].n

TestLabel(i) == Tail(csv)[seedPerm[split + i]].label

\* C12: one-hot round trip.  The argmax of the one-hot encoding of every code
\* the label mapping assigns is that code, and y, the argmax of each row of
\* test_y, is the list of the codes of the test rows' labels.
C12_OneHotRoundTrip ==
  AfterSplit =>
    /\ \A l \in DOMAIN label_2_int :
         ArgmaxRows(ToCategoricalTo(<<label_2_int[l]>>, Len(uniq_labels)))
           = <<label_2_int[l]>>
    /\ ArgmaxRows(test_y) = [i \in 1..Len(test_y) |-> label_2_int[TestLabel(i)]]

\* A split of two labels whose test set holds a row of the label of code 1,
\* decoded to 1.
C12_Witness ==
  /\ AfterSplit
  /\ Len(uniq_labels) = 2
  /\ \E i \in 1..Len(test_y) : label_2_int[TestLabel(i)] = 1 /\ ArgmaxRows(test_y)[i] = 1

\* The distinct label strings of the data rows of the CSV.
DistinctLabels == {Tail(csv)[i].label : i \in 1..(Len(csv) - 1)}

\* C13: whatever the dataset, the softmax output of each classifier is as wide
\* as the number of distinct label strings in the data, which is the width of
\* the one-hot rows the classifier is fitted to and evaluated against.
C13_SoftmaxWidthIsLabelCardinality ==
  clf_base # NoModel =>
    /\ \A m \in {clf_base, clf_norm, clf_std} : OutputUnits(m) = Cardinality(DistinctLabels)
    /\ \A i \in 1..Len(train_y) : Len(train_y[i]) = Cardinality(DistinctLabels)
    /\ \A i \in 1..Len(test_y) : Len(test_y[i]) = Cardinality(DistinctLabels)

\* C14: label_2_int is a bijection between the distinct label strings of the
\* data and 0..k-1, k their number, under every set order: the lookup of a
\* label during the encoding never fails, every label of the data has a code,
\* no two labels share a code, and the codes used are exactly 0..k-1.
C14_LabelMapIsBijection ==
  /\ exc # "KeyError"
  /\ AfterSplit =>
       /\ Len(uniq_labels) = Cardinality(DistinctLabels)
       /\ Range(uniq_labels) = DistinctLabels
       /\ DOMAIN label_2_int = DistinctLabels
       /\ \A a \in DistinctLabels : \A b \in DistinctLabels :
            a # b => label_2_int[a] # label_2_int[b]
       /\ {label_2_int[l] : l \in DistinctLabels} = 0..(Cardinality(DistinctLabels) - 1)

\* A CSV in which a label occurs twice beside another label, encoded under the
\* set order that puts "Water" first.
C14_Witness ==
  /\ AfterSplit
  /\ Cardinality(DistinctLabels) = 2
  /\ Len(csv) - 1 > 2
  /\ hashOrder = <<"Water", "Grass">>
  /\ label_2_int["Water"] = 0
  /\ label_2_int["Grass"] = 1

====
